---- MODULE Spec2Model ----
(***************************************************************************)
(* tensortrade: the action schemes DiscreteActions and                     *)
(* TargetStopActionStrategy, and the Exchange helpers they rest on.        *)
(*                                                                         *)
(* Real numbers are fixed-point integers: a value v stands for             *)
(* v / 10^ScaleDigits.  Fractions that the code computes by float division *)
(* are kept exact as records [num, den]; round() is Python's round(x, n)   *)
(* on the exact value (ties go to the even digit).  Binary floating-point  *)
(* representation error (2 * 0.2 + 0.2 = 0.6000000000000001) is not        *)
(* modelled.                                                               *)
(***************************************************************************)
EXTENDS Integers, Sequences, FiniteSets, TLC

VARIABLES
    balance,              \* Exchange.balance
    portfolio,            \* Exchange.portfolio: symbol -> amount, positive amounts only
    price,                \* what Exchange.current_price(symbol) returns
    base_precision,       \* Exchange._base_precision
    instrument_precision, \* Exchange._instrument_precision
    min_trade_amount,     \* Exchange._min_trade_amount
    max_trade_amount,     \* Exchange._max_trade_amount
    min_trade_price,      \* Exchange._min_trade_price
    max_trade_price,      \* Exchange._max_trade_price
    n_actions,            \* DiscreteActions.n_actions
    instrument_symbol,    \* instrument_symbol of each scheme
    position_size,        \* TargetStopActionStrategy.position_size
    timeout_steps,        \* TargetStopActionStrategy.timeout_steps
    current_step,         \* TargetStopActionStrategy.current_step
    trading_history,      \* TargetStopActionStrategy.trading_history
    ret                   \* outcome of the most recent call, until the exchange moves on

exchange_vars == <<balance, portfolio, price>>
exchange_conf == <<base_precision, instrument_precision, min_trade_amount,
                   max_trade_amount, min_trade_price, max_trade_price>>
scheme_conf == <<n_actions, instrument_symbol, position_size, timeout_steps>>
vars == <<balance, portfolio, price, base_precision, instrument_precision,
          min_trade_amount, max_trade_amount, min_trade_price, max_trade_price,
          n_actions, instrument_symbol, position_size, timeout_steps,
          current_step, trading_history, ret>>

----------------------------------------------------------------------------
(* Bounds of the model *)

ScaleDigits == 2
MaxStep == 3
MaxLedger == 2
MaxInput == 30

RECURSIVE Pow10(_)
Pow10(n) == IF n <= 0 THEN 1 ELSE 10 * Pow10(n - 1)

Scale == Pow10(ScaleDigits)

Precisions == 0..ScaleDigits
Balances == {0, 333, 1000}
Prices == {50, 125, 500}
Holdings == {150, 200}
Symbols == {"BTC"}
NActions == {6, 20}
PositionSizes == {8}
TimeoutSteps == {1, 2}
Portfolios == {[s \in {} |-> 0]} \cup {[s \in Symbols |-> h] : h \in Holdings}

BoundedSeq(S, n) == UNION {[1..k -> S] : k \in 0..n}

----------------------------------------------------------------------------
(* Python arithmetic *)

\* round(x, ndigits) for x = num / den in fixed-point units, den > 0:
\* the nearest multiple of 10^-ndigits, ties to the even multiple.
round(num, den, ndigits) ==
    LET unit == Pow10(ScaleDigits - ndigits)
        d == den * unit
        q == num \div d
        r == num % d
        n == IF 2 * r < d THEN q
             ELSE IF 2 * r > d THEN q + 1
             ELSE IF q % 2 = 0 THEN q ELSE q + 1
    IN n * unit

min(a, b) == IF a <= b THEN a ELSE b
max(a, b) == IF a >= b THEN a ELSE b

----------------------------------------------------------------------------
(* tensortrade.trades: TradeType and Trade *)

TradeTypeMembers == <<"LIMIT_BUY", "MARKET_BUY", "LIMIT_SELL", "MARKET_SELL">>
len_TradeType == Len(TradeTypeMembers)
TradeType(value) == TradeTypeMembers[value + 1]
is_buy(trade_type) == trade_type \in {"LIMIT_BUY", "MARKET_BUY"}
is_sell(trade_type) == trade_type \in {"LIMIT_SELL", "MARKET_SELL"}

\* the class object TradeType itself, which is none of its members
TradeTypeClass == "TradeType"

NoCall ==
    [op |-> "none", action |-> 0, kind |-> "none",
     symbol |-> "", side |-> "", amount |-> 0, price |-> 0]

\* a call that returned Trade(symbol, trade_type, amount, price)
Trade(op, action, symbol, trade_type, amount, current_price) ==
    [op |-> op, action |-> action, kind |-> "Trade",
     symbol |-> symbol, side |-> trade_type, amount |-> amount, price |-> current_price]

\* a call that raised
Raised(op, action, exception) ==
    [op |-> op, action |-> action, kind |-> exception,
     symbol |-> "", side |-> "", amount |-> 0, price |-> 0]

\* a call that returned a number (or nothing: value 0)
Returned(op, value) ==
    [op |-> op, action |-> 0, kind |-> "value",
     symbol |-> "", side |-> "", amount |-> value, price |-> 0]

----------------------------------------------------------------------------
(* Exchange *)

instrument_balance(symbol) ==
    IF symbol \in DOMAIN portfolio THEN portfolio[symbol] ELSE 0

current_price(symbol) == price

\* the abstract execute_trade / next_observation of a concrete exchange:
\* balance, holdings and price move to any values; the pending result is consumed
ExchangeStep ==
    /\ balance' \in Balances
    /\ portfolio' \in Portfolios
    /\ price' \in Prices
    /\ <<balance', portfolio', price'>> # <<balance, portfolio, price>>
    /\ ret' = NoCall
    /\ UNCHANGED <<exchange_conf, scheme_conf, current_step, trading_history>>

\* Exchange._bind_trade_price
_bind_trade_price(p) ==
    min(round(max_trade_price, 1, base_precision),
        max(round(p, 1, base_precision),
            round(min_trade_price, 1, base_precision)))

\* variant: the limits are compared as configured, without rounding them
bind_trade_amount_raw_limits(amount) ==
    min(max_trade_amount,
        max(round(amount, 1, instrument_precision), min_trade_amount))

\* Exchange._bind_trade_amount
_bind_trade_amount(amount) ==
    min(round(max_trade_amount, 1, instrument_precision),
        max(round(amount, 1, instrument_precision),
            round(min_trade_amount, 1, instrument_precision)))

BindInputs == (0 - MaxInput)..MaxInput

call_bind_trade_price(p) ==
    /\ ret' = Returned("_bind_trade_price", _bind_trade_price(p))
    /\ UNCHANGED <<exchange_vars, exchange_conf, scheme_conf, current_step, trading_history>>

call_bind_trade_amount(amount) ==
    /\ ret' = Returned("_bind_trade_amount", _bind_trade_amount(amount))
    /\ UNCHANGED <<exchange_vars, exchange_conf, scheme_conf, current_step, trading_history>>

----------------------------------------------------------------------------
(* DiscreteActions *)

\* n_actions / len(TradeType), a true division
n_splits == [num |-> n_actions, den |-> len_TradeType]

\* variant: the bucket number is taken for the order kind
get_trade_type_of_bucket(action) == TradeType((action \div len_TradeType) % len_TradeType)

_get_trade_type(action) == TradeType(action % len_TradeType)

\* variant: buckets counted from zero
get_trade_amount_zero_based(action) ==
    [num |-> (action \div len_TradeType) * n_splits.den, den |-> n_splits.num]

\* int(action / len(TradeType)) * float(1 / n_splits) + (1 / n_splits)
_get_trade_amount(action) ==
    LET bucket == action \div len_TradeType
        inv == [num |-> n_splits.den, den |-> n_splits.num]
    IN [num |-> bucket * inv.num + inv.num, den |-> inv.den]

\* variant: the scheme books a buy on the exchange itself
DiscreteActions_get_trade_booking(action) ==
    LET symbol == instrument_symbol["DiscreteActions"]
        trade_type == _get_trade_type(action)
        trade_amount == _get_trade_amount(action)
        amount_held == instrument_balance(symbol)
        cur == current_price(symbol)
        amount ==
            IF is_buy(trade_type)
            THEN round(Scale * balance * 49 * trade_amount.num,
                       50 * trade_amount.den * cur, instrument_precision)
            ELSE round(amount_held * trade_amount.num, trade_amount.den,
                       instrument_precision)
    IN /\ ret' = Trade("DiscreteActions.get_trade", action, symbol, trade_type, amount, cur)
       /\ balance' = IF is_buy(trade_type) THEN 0 ELSE balance
       /\ UNCHANGED <<portfolio, price, exchange_conf, scheme_conf, current_step,
                      trading_history>>

DiscreteActions_get_trade(action) ==
    LET symbol == instrument_symbol["DiscreteActions"]
        trade_type == _get_trade_type(action)
        trade_amount == _get_trade_amount(action)
        amount_held == instrument_balance(symbol)
        cur == current_price(symbol)
        \* balance * 0.98 * trade_amount / current_price, 0.98 = 49 / 50
        amount ==
            IF is_buy(trade_type)
            THEN round(Scale * balance * 49 * trade_amount.num,
                       50 * trade_amount.den * cur, instrument_precision)
            ELSE round(amount_held * trade_amount.num, trade_amount.den,
                       instrument_precision)
    IN /\ ret' = Trade("DiscreteActions.get_trade", action, symbol, trade_type, amount, cur)
       /\ UNCHANGED <<exchange_vars, exchange_conf, scheme_conf, current_step, trading_history>>

----------------------------------------------------------------------------
(* TargetStopActionStrategy *)

\* len(range(0, 100, 5)), the default profit_target_range and stop_loss_range
n_pt_splits == 20
n_sl_splits == 20

\* float(action * n / n) + (1 / n)
profit_target_percent(action) == [num |-> action * n_pt_splits + 1, den |-> n_pt_splits]
stop_loss_percent(action) == [num |-> action * n_sl_splits + 1, den |-> n_sl_splits]

\* int(action / len(TradeType)) * float(1 / n_splits) + (1 / n_splits),
\* n_splits = position_size / len(TradeType)
target_stop_trade_amount(action) ==
    [num |-> (action \div len_TradeType) * len_TradeType + len_TradeType,
     den |-> position_size]

\* the exit tests of the loop body, for a ledger entry
\* [opened step, price, amount, profit target, stop loss] (list indices 0..4)
profit_target_hit(entry, cur) == cur * entry[4].den >= entry[2] * entry[4].num
stop_loss_hit(entry, cur) == cur * entry[5].den <= entry[2] * entry[5].num
timeout_hit(entry, step) == step - entry[1] >= timeout_steps

\* the amount of the exit Trade in the loop body: portfolio.get(symbol, 0),
\* replaced by the entry's amount when it is at least that much.  The body
\* raises before it gets here (see get_trade below).
exit_amount(entry, symbol) ==
    LET amount == IF symbol \in DOMAIN portfolio THEN portfolio[symbol] ELSE 0
    IN IF amount >= entry[3] THEN entry[3] ELSE amount

\* variant: the ledger is not cleared
TargetStop_reset_keeps_ledger ==
    /\ current_step' = 0
    /\ ret' = Returned("TargetStopActionStrategy.reset", 0)
    /\ UNCHANGED <<exchange_vars, exchange_conf, scheme_conf, trading_history>>

TargetStop_reset ==
    /\ current_step' = 0
    /\ trading_history' = <<>>
    /\ ret' = Returned("TargetStopActionStrategy.reset", 0)
    /\ UNCHANGED <<exchange_vars, exchange_conf, scheme_conf>>

\* variant: the counter is incremented inside the loop body only
TargetStop_get_trade_step_in_loop(action) ==
    LET op == "TargetStopActionStrategy.get_trade"
        symbol == instrument_symbol["TargetStopActionStrategy"]
        trade_type == TradeType(action % len_TradeType)
        held == instrument_balance(symbol)
        cur == round(current_price(symbol), 1, base_precision)
    IN /\ current_step < MaxStep
       /\ IF trading_history # <<>>
          THEN /\ ret' = Raised(op, action, "TypeError")
               /\ current_step' = current_step + 1
          ELSE /\ ret' = Trade(op, action, symbol, trade_type, held, cur)
               /\ current_step' = current_step
       /\ UNCHANGED <<exchange_vars, exchange_conf, scheme_conf, trading_history>>

\* get_trade.  The loop header "for trade, idx in enumerate(self.trading_history)"
\* binds trade to the index (an int) and idx to the entry, so the first test of the
\* body, trade[1], raises TypeError as soon as the ledger holds an entry; the
\* counter has been incremented by then.  The test that guards the new entry
\* compares the class TradeType with its members and is never true.
TargetStop_get_trade(action) ==
    LET op == "TargetStopActionStrategy.get_trade"
        symbol == instrument_symbol["TargetStopActionStrategy"]
        trade_type == TradeType(action % len_TradeType)
        trade_amount == target_stop_trade_amount(action)
        held == instrument_balance(symbol)
        cur == round(current_price(symbol), 1, base_precision)
        step == current_step
    IN /\ current_step < MaxStep
       /\ current_step' = current_step + 1
       /\ IF trading_history # <<>>
          THEN /\ ret' = Raised(op, action, "TypeError")
               /\ UNCHANGED trading_history
          ELSE IF TradeTypeClass = "MARKET_BUY" \/ TradeTypeClass = "LIMIT_BUY"
          THEN LET amount == round(Scale * balance * 99 * trade_amount.num,
                                   100 * trade_amount.den * cur, instrument_precision)
               IN /\ trading_history' =
                        Append(trading_history,
                               <<step, cur, amount, profit_target_percent(action),
                                 stop_loss_percent(action)>>)
                  /\ ret' = Trade(op, action, symbol, trade_type, amount, cur)
          ELSE /\ ret' = Trade(op, action, symbol, trade_type, held, cur)
               /\ UNCHANGED trading_history
       /\ UNCHANGED <<exchange_vars, exchange_conf, scheme_conf>>

----------------------------------------------------------------------------
(* Specifications *)

\* the exchange and the configuration of the two schemes
InitConf ==
    /\ balance \in Balances
    /\ portfolio \in Portfolios
    /\ price \in Prices
    /\ base_precision \in Precisions
    /\ instrument_precision \in Precisions
    /\ n_actions \in NActions
    /\ instrument_symbol = [s \in {"DiscreteActions", "TargetStopActionStrategy"} |-> "BTC"]
    /\ position_size \in PositionSizes
    /\ ret = NoCall

InitLimits ==
    /\ min_trade_amount = 1
    /\ max_trade_amount = 25
    /\ min_trade_price = 1
    /\ max_trade_price = 25

\* after construction: __init__ ends with reset().  The ledger stays empty in
\* every run from here, so timeout_steps is never read; one value stands for all.
Init ==
    /\ InitConf
    /\ InitLimits
    /\ timeout_steps = 1
    /\ current_step = 0
    /\ trading_history = <<>>

Next ==
    \/ \E action \in 0..(n_actions - 1) : DiscreteActions_get_trade(action)
    \/ \E action \in 0..(position_size - 1) : TargetStop_get_trade(action)
    \/ TargetStop_reset
    \/ ExchangeStep

Spec == Init /\ [][Next]_vars

\* The scheme as an object in any state of its fields: trading_history and
\* current_step are public attributes, so the ledger may hold any entries
\* when get_trade or reset is called.
LedgerEntries ==
    {<<step, 125, 100, profit_target_percent(a), stop_loss_percent(0)>> :
        step \in 0..1, a \in 0..1}

InitLedger ==
    /\ balance = 1000
    /\ portfolio \in Portfolios
    /\ price \in Prices
    /\ base_precision \in Precisions
    /\ instrument_precision = ScaleDigits
    /\ n_actions = 20
    /\ instrument_symbol = [s \in {"DiscreteActions", "TargetStopActionStrategy"} |-> "BTC"]
    /\ position_size \in PositionSizes
    /\ timeout_steps \in TimeoutSteps
    /\ ret = NoCall
    /\ InitLimits
    /\ current_step \in 0..MaxStep
    /\ trading_history \in BoundedSeq(LedgerEntries, MaxLedger)

NextLedger ==
    \/ \E action \in 0..(position_size - 1) : TargetStop_get_trade(action)
    \/ TargetStop_reset

SpecLedger == InitLedger /\ [][NextLedger]_vars

\* The exchange helpers called on any input, under any limits with min <= max
InitBind ==
    /\ balance = 0
    /\ portfolio = [s \in {} |-> 0]
    /\ price = 125
    /\ base_precision \in Precisions
    /\ instrument_precision \in Precisions
    /\ n_actions = 20
    /\ instrument_symbol = [s \in {"DiscreteActions", "TargetStopActionStrategy"} |-> "BTC"]
    /\ position_size \in PositionSizes
    /\ timeout_steps = 1
    /\ ret = NoCall
    /\ min_trade_amount \in {1, 5}
    /\ max_trade_amount \in {14, 25}
    /\ min_trade_price \in {1, 5}
    /\ max_trade_price \in {14, 25}
    /\ current_step = 0
    /\ trading_history = <<>>

NextBind ==
    \/ \E p \in BindInputs : call_bind_trade_price(p)
    \/ \E amount \in BindInputs : call_bind_trade_amount(amount)

SpecBind == InitBind /\ [][NextBind]_vars

----------------------------------------------------------------------------
(* Properties *)

TargetStopOp == "TargetStopActionStrategy.get_trade"
DiscreteOp == "DiscreteActions.get_trade"

\* the price get_trade of TargetStopActionStrategy works with
RoundedPrice == round(price, 1, base_precision)

ExitHit(entry, cur, step) ==
    profit_target_hit(entry, cur) \/ stop_loss_hit(entry, cur) \/ timeout_hit(entry, step)

ExitIndexes == {i \in 1..Len(trading_history) :
                    ExitHit(trading_history[i], RoundedPrice, current_step)}

FirstExit == CHOOSE i \in ExitIndexes : \A j \in ExitIndexes : i <= j

RemoveAt(seq, i) == SubSeq(seq, 1, i - 1) \o SubSeq(seq, i + 1, Len(seq))

\* a step that is a get_trade call of TargetStopActionStrategy
TargetStopCalled == ret'.op = TargetStopOp /\ current_step' # current_step

C3_NewEntry ==
    [][(/\ TargetStopCalled
        /\ ExitIndexes = {}
        /\ RoundedPrice > 0
        /\ is_buy(TradeTypeMembers[(ret'.action % 4) + 1])) =>
         LET a == ret'.action
             fraction == target_stop_trade_amount(a)
             amount == round(Scale * balance * 99 * fraction.num,
                             100 * fraction.den * RoundedPrice, instrument_precision)
         IN /\ Len(trading_history') = Len(trading_history) + 1
            /\ trading_history' =
                 Append(trading_history,
                        <<current_step, RoundedPrice, amount,
                          profit_target_percent(a), stop_loss_percent(a)>>)
            /\ ret'.kind = "Trade"
            /\ ret'.side = TradeTypeMembers[(a % 4) + 1]
            /\ ret'.amount = amount
            /\ ret'.price = RoundedPrice]_vars

\* C4: every get_trade call that returns a Trade increases current_step by exactly
\* one; reset sets it to 0 and no other step changes it, so that after reset and k
\* returning calls current_step = k.
C4_StepPerCall ==
    [][/\ (ret'.op = TargetStopOp /\ ret'.kind = "Trade") => current_step' = current_step + 1
       /\ ret'.op = "TargetStopActionStrategy.reset" => current_step' = 0
       /\ ret'.op \notin {TargetStopOp, "TargetStopActionStrategy.reset"} =>
            current_step' = current_step]_vars

C4_Witness ==
    /\ ret.op = TargetStopOp
    /\ ret.kind = "Trade"
    /\ is_sell(ret.side)
    /\ current_step >= 2

\* C5: reset, from any step counter value and any ledger contents, leaves
\* current_step = 0 and the ledger empty, the state of a fresh instance with the
\* same configuration.
C5_Reset ==
    [][ret'.op = "TargetStopActionStrategy.reset" =>
         /\ current_step' = 0
         /\ trading_history' = <<>>
         /\ scheme_conf' = scheme_conf]_vars

C5_Witness ==
    /\ ret.op = "TargetStopActionStrategy.reset"
    /\ current_step = 0
    /\ trading_history = <<>>

\* C6: DiscreteActions.get_trade changes neither the scheme (n_actions, symbol) nor
\* the exchange (balance, portfolio, price, limits), and a call that repeats the
\* previous call's action code on the unchanged exchange returns the same Trade.
C6_Pure ==
    [][ret'.op = DiscreteOp =>
         /\ scheme_conf' = scheme_conf
         /\ exchange_vars' = exchange_vars
         /\ exchange_conf' = exchange_conf
         /\ (ret.op = DiscreteOp /\ ret.action = ret'.action) => ret' = ret]_vars

C6_Witness ==
    /\ ret.op = DiscreteOp
    /\ ret.kind = "Trade"
    /\ ret.symbol = instrument_symbol["DiscreteActions"]
    /\ ret.price = price

C8_BuyBound ==
    (ret.kind = "Trade" /\ is_buy(ret.side)) =>
        LET percent == IF ret.op = DiscreteOp THEN 98 ELSE 99
            unit == Pow10(ScaleDigits - instrument_precision)
        IN 100 * ret.amount * ret.price
             <= percent * balance * Scale + 100 * unit * ret.price

\* C9 as stated: binding is idempotent and its result lies between the configured
\* min and max.
C9_BindConfigured ==
    /\ ret.op = "_bind_trade_amount" =>
         /\ _bind_trade_amount(ret.amount) = ret.amount
         /\ min_trade_amount <= ret.amount
         /\ ret.amount <= max_trade_amount
    /\ ret.op = "_bind_trade_price" =>
         /\ _bind_trade_price(ret.amount) = ret.amount
         /\ min_trade_price <= ret.amount
         /\ ret.amount <= max_trade_price

\* C9 amended: binding is idempotent and its result lies between the min and the
\* max rounded to the configured precision.
C9_BindRounded ==
    /\ ret.op = "_bind_trade_amount" =>
         /\ _bind_trade_amount(ret.amount) = ret.amount
         /\ round(min_trade_amount, 1, instrument_precision) <= ret.amount
         /\ ret.amount <= round(max_trade_amount, 1, instrument_precision)
    /\ ret.op = "_bind_trade_price" =>
         /\ _bind_trade_price(ret.amount) = ret.amount
         /\ round(min_trade_price, 1, base_precision) <= ret.amount
         /\ ret.amount <= round(max_trade_price, 1, base_precision)

\* a bound amount that is below the configured minimum
C9_Witness ==
    /\ ret.op = "_bind_trade_amount"
    /\ ret.amount = round(min_trade_amount, 1, instrument_precision)
    /\ ret.amount < min_trade_amount

\* the Trade that DiscreteActions returns for the pending action when the
\* fraction is (floor(action / 4) + 1) / 5
FifthsAmount ==
    LET k == (ret.action \div 4) + 1
        symbol == instrument_symbol["DiscreteActions"]
    IN IF is_buy(ret.side)
       THEN round(Scale * balance * 49 * k, 50 * 5 * price, instrument_precision)
       ELSE round(instrument_balance(symbol) * k, 5, instrument_precision)

FifthsDecoding ==
    LET k == (ret.action \div 4) + 1
        f == _get_trade_amount(ret.action)
    IN /\ f.num * 5 = k * f.den
       /\ f.num > 0
       /\ k \in 1..5
       /\ ret.amount = FifthsAmount

====
